---------------------------- MODULE Spec2Model ----------------------------
(***************************************************************************)
(* A model of the Mersenne-prime search of MERSENNE.py (CPU, process pool) *)
(* and Mersenne_GPU.py (CUDA kernel on 64-bit integers).                   *)
(*                                                                         *)
(* TLC's integers are 32 bits wide, while the program computes on Python   *)
(* integers of arbitrary precision and on numba int64.  Every value that   *)
(* can exceed 31 bits (the Mersenne number 2^p - 1, the Lucas-Lehmer       *)
(* residue, the int64 accumulator of the kernel) is therefore held as a    *)
(* natural number in little-endian limbs of LimbBits bits, the way CPython *)
(* itself stores an int.  Exponents, counters and chunks stay integers.    *)
(***************************************************************************)
EXTENDS Integers, Sequences, FiniteSets, TLC

VARIABLES
  (* find_next_mersenne_prime of MERSENNE.py and the loop of main() *)
  pc,                 \* where the search / driver stands
  known_exponents,    \* list of exponents, in insertion order
  start,              \* the argument `start` (starting_prime_exponent)
  num_processes,      \* the argument num_processes (cpu_count)
  p,                  \* the candidate counter of the search
  candidates,         \* the batch under test
  results,            \* pool.map's result slots: Pending or (p, verdict)
  found,              \* candidate_p returned by the last search call (0: none)
  mersenne_prime,     \* the value returned with it, in limbs
  emitted,            \* history: every exponent handed to a Lucas-Lehmer test
  reported,           \* history: exponents returned by successive calls
  first_run,          \* result of the run at the first parallelism, for comparison
  has_gmpy2,          \* whether `import gmpy2` succeeded
  (* Mersenne_GPU.py: lucas_lehmer_test_cuda and its kernel *)
  k_pc, k_p, k_chunks, k_i, k_M, k_s, k_iter, k_wrapped, k_verdict,
  (* lucas_lehmer_test of MERSENNE.py, statement by statement *)
  ll_pc, ll_p, ll_M, ll_s, ll_iter, ll_verdict,
  (* split_chunks / combine_chunks *)
  c_pc, c_arg, c_size, c_number, c_chunks, c_combined,
  (* is_prime *)
  ip_n, ip_result

searchVars == <<pc, known_exponents, start, num_processes, p, candidates,
                results, found, mersenne_prime, emitted, reported, first_run,
                has_gmpy2>>
kernelVars == <<k_pc, k_p, k_chunks, k_i, k_M, k_s, k_iter, k_wrapped, k_verdict>>
llVars     == <<ll_pc, ll_p, ll_M, ll_s, ll_iter, ll_verdict>>
chunkVars  == <<c_pc, c_arg, c_size, c_number, c_chunks, c_combined>>
primeVars  == <<ip_n, ip_result>>
vars       == <<searchVars, kernelVars, llVars, chunkVars, primeVars>>

-----------------------------------------------------------------------------
(* Bounds of the model *)

MaxExp == 140          \* largest exponent a candidate batch may contain
MaxStart == 20         \* `start` ranges over 0..MaxStart in the search alone
MaxKnown == 11         \* known sets are drawn from 2 and the odd numbers 3..MaxKnown
MaxProcs == 2          \* num_processes ranges over 1..MaxProcs
MaxSeedLen == 9        \* seeds of the driver: prefixes of main()'s list
MaxKernelExp == 89     \* exponents given to the kernel (shift counts stay < 64)
MaxNumber == 40        \* |number| given to split_chunks
MaxChunkSize == 4      \* chunk_size given to split_chunks: 0..MaxChunkSize
MaxChunks == 8         \* split_chunks is followed for at most this many chunks
MaxN == 10000          \* is_prime is applied to 0..MaxN

-----------------------------------------------------------------------------
(* Natural numbers in limbs *)

LimbBits == 12
Base == 2^LimbBits

\* TLC evaluates operator arguments lazily; comparing v with itself first
\* evaluates it, which keeps the evaluation depth of long iterations small.
Strict(v, e) == IF v = v THEN e ELSE e

Limb(a, i) == IF i >= 1 /\ i <= Len(a) THEN a[i] ELSE 0

RECURSIVE BigNorm(_)
\* the canonical form: no leading (most significant) zero limb
BigNorm(a) ==
  IF Len(a) > 0 /\ a[Len(a)] = 0 THEN BigNorm(SubSeq(a, 1, Len(a) - 1)) ELSE a

BigEq(a, b) == BigNorm(a) = BigNorm(b)
BigIsZero(a) == BigNorm(a) = <<>>

RECURSIVE BigFromInt(_)
BigFromInt(n) == IF n = 0 THEN <<>> ELSE <<n % Base>> \o BigFromInt(n \div Base)

RECURSIVE BigToInt(_)
\* only for values below 2^31
BigToInt(a) == IF Len(a) = 0 THEN 0 ELSE a[1] + Base * BigToInt(Tail(a))

RECURSIVE CarryLimbs(_, _, _, _)
\* the limbs of the number whose k-th column (weight Base^(k-1)) is cols[k],
\* from column k on, with the carry propagated
CarryLimbs(cols, k, carry, acc) ==
  IF k > Len(cols) THEN (IF carry = 0 THEN acc ELSE Append(acc, carry))
  ELSE LET v == cols[k] + carry
           next == Append(acc, v % Base)
       IN Strict(next, CarryLimbs(cols, k + 1, v \div Base, next))

RECURSIVE ColSum(_, _, _, _, _)
\* sum of a[i] * b[k + 1 - i] for i in i..hi
ColSum(a, b, k, i, hi) ==
  IF i > hi THEN 0 ELSE a[i] * b[k + 1 - i] + ColSum(a, b, k, i + 1, hi)

BigMul(a, b) ==
  IF Len(a) = 0 \/ Len(b) = 0 THEN <<>>
  ELSE CarryLimbs([k \in 1..(Len(a) + Len(b) - 1) |->
                     ColSum(a, b, k,
                            IF k > Len(b) THEN k + 1 - Len(b) ELSE 1,
                            IF k > Len(a) THEN Len(a) ELSE k)],
                  1, 0, <<>>)

BigAdd(a, b) ==
  CarryLimbs([k \in 1..(IF Len(a) > Len(b) THEN Len(a) ELSE Len(b)) |->
                Limb(a, k) + Limb(b, k)],
             1, 0, <<>>)

RECURSIVE BorrowLimbs(_, _, _, _, _)
BorrowLimbs(a, b, k, borrow, acc) ==
  IF k > Len(a) THEN acc
  ELSE LET v == a[k] - Limb(b, k) - borrow
           next == Append(acc, IF v < 0 THEN v + Base ELSE v)
       IN Strict(next, BorrowLimbs(a, b, k + 1, IF v < 0 THEN 1 ELSE 0, next))

\* a - b for a >= b
BigSub(a, b) == BorrowLimbs(a, b, 1, 0, <<>>)

RECURSIVE BigLessFrom(_, _, _)
BigLessFrom(a, b, k) ==
  IF k = 0 THEN FALSE
  ELSE IF Limb(a, k) # Limb(b, k) THEN Limb(a, k) < Limb(b, k)
  ELSE BigLessFrom(a, b, k - 1)

BigLess(a, b) == BigLessFrom(a, b, IF Len(a) > Len(b) THEN Len(a) ELSE Len(b))

\* a mod 2^n   (a & ((1 << n) - 1))
BigLow(a, n) ==
  LET q == n \div LimbBits
      r == n % LimbBits
  IN BigNorm([j \in 1..(IF r = 0 THEN q ELSE q + 1) |->
                IF j <= q THEN Limb(a, j) ELSE Limb(a, j) % (2^r)])

\* a div 2^n   (a >> n)
BigHigh(a, n) ==
  LET q == n \div LimbBits
      r == n % LimbBits
  IN BigNorm([j \in 1..(IF Len(a) > q THEN Len(a) - q ELSE 0) |->
                (Limb(a, q + j) \div (2^r))
                + (Limb(a, q + j + 1) % (2^r)) * 2^(LimbBits - r)])

\* a * 2^n   (a << n)
BigShl(a, n) ==
  LET q == n \div LimbBits
      r == n % LimbBits
  IN BigNorm([j \in 1..(Len(a) + q + 1) |->
                IF j <= q THEN 0
                ELSE ((Limb(a, j - q) % (2^(LimbBits - r))) * 2^r)
                     + (Limb(a, j - q - 1) \div (2^(LimbBits - r)))])

\* (1 << n) - 1
BigOnes(n) ==
  [j \in 1..((n + LimbBits - 1) \div LimbBits) |->
     IF j * LimbBits <= n THEN Base - 1 ELSE 2^(n - (j - 1) * LimbBits) - 1]

RECURSIVE ModOnes(_, _)
\* x % ((1 << n) - 1) for n >= 1: since 2^n = 1 modulo 2^n - 1, the part of x
\* above bit n is added to the part below until nothing is above; the sum
\* 2^n - 1 itself stands for 0.
ModOnes(x, n) ==
  LET hi == BigHigh(x, n)
  IN IF Len(hi) = 0
     THEN (IF BigEq(x, BigOnes(n)) THEN <<>> ELSE BigNorm(x))
     ELSE LET y == BigAdd(BigLow(x, n), hi) IN Strict(y, ModOnes(y, n))

RECURSIVE IntBitLen(_)
IntBitLen(n) == IF n = 0 THEN 0 ELSE 1 + IntBitLen(n \div 2)

\* the number of bits of a (0 for 0)
BigBitLen(a) ==
  LET b == BigNorm(a)
  IN IF Len(b) = 0 THEN 0 ELSE (Len(b) - 1) * LimbBits + IntBitLen(b[Len(b)])

\* x % M for a modulus of the form (1 << n) - 1, n >= 1, and x >= 0: the only
\* moduli the program ever builds
BigModOnes(x, M) == ModOnes(x, BigBitLen(M))

-----------------------------------------------------------------------------
(* MERSENNE.py: is_prime *)

RECURSIVE is_prime_loop(_, _)
\* the while loop of is_prime, entered with i
is_prime_loop(n, i) ==
  IF i * i <= n
  THEN IF n % i = 0 \/ n % (i + 2) = 0 THEN FALSE ELSE is_prime_loop(n, i + 6)
  ELSE TRUE

\* variant: while i * i < n
is_prime_strict_bound(n) ==
  LET RECURSIVE loop(_)
      loop(i) == IF i * i < n
                 THEN IF n % i = 0 \/ n % (i + 2) = 0 THEN FALSE ELSE loop(i + 6)
                 ELSE TRUE
  IN IF n <= 1 THEN FALSE
     ELSE IF n <= 3 THEN TRUE
     ELSE IF n % 2 = 0 \/ n % 3 = 0 THEN FALSE
     ELSE loop(5)

is_prime(n) ==
  IF n <= 1 THEN FALSE
  ELSE IF n <= 3 THEN TRUE
  ELSE IF n % 2 = 0 \/ n % 3 = 0 THEN FALSE
  ELSE is_prime_loop(n, 5)

-----------------------------------------------------------------------------
(* MERSENNE.py: lucas_lehmer_test *)

Two == <<2>>
Four == <<4>>

\* M = (1 << p) - 1
MersenneNumber(e) == BigNorm(BigOnes(e))

\* s = (s * s - 2) % M, with Python's % (the result has the sign of M): the
\* difference is negative only for s in {0, 1}
LLStep(s, M) ==
  LET sq == BigMul(s, s)
  IN IF BigLess(sq, Two)
     THEN BigModOnes(BigSub(M, BigSub(Two, sq)), M)
     ELSE BigModOnes(BigSub(sq, Two), M)

RECURSIVE LLIterate(_, _, _)
\* the for loop: n applications of LLStep, the first half of them, then the rest
LLIterate(s, M, n) ==
  IF n <= 0 THEN s
  ELSE IF n = 1 THEN LLStep(s, M)
  ELSE LET h == LLIterate(s, M, n \div 2)
       IN Strict(h, LLIterate(h, M, n - n \div 2))

\* variant: range(p - 3)
LLIterationsShort(e) == e - 3

\* range(p - 2)
LLIterations(e) == e - 2

\* the value of s when the loop of lucas_lehmer_test(p) ends
LLResidue(e) == LLIterate(Four, MersenneNumber(e), LLIterations(e))

lucas_lehmer_test(e) ==
  IF e = 2 THEN TRUE ELSE BigIsZero(LLResidue(e))

\* lucas_lehmer_test_multiprocessing yields (p, lucas_lehmer_test(p)); the
\* verdicts of the exponents a batch can hold, computed once
LLVerdicts == {e \in 2..MaxExp : lucas_lehmer_test(e)}

lucas_lehmer_test_multiprocessing(e) == <<e, e \in LLVerdicts>>

-----------------------------------------------------------------------------
(* Mersenne_GPU.py: split_chunks and combine_chunks, on Python integers *)

\* a Python int: sign and magnitude
PyInt(n) == [neg |-> n < 0, mag |-> BigFromInt(IF n < 0 THEN 0 - n ELSE n)]
PyNat(a) == [neg |-> FALSE, mag |-> BigNorm(a)]
PyIsZero(x) == BigIsZero(x.mag)
PyEq(x, y) == BigEq(x.mag, y.mag) /\ (x.neg = y.neg \/ BigIsZero(x.mag))

\* number & ((1 << chunk_size) - 1), chunk_size >= 0: Python's & acts on the
\* two's complement of a negative number, so the result is number modulo
\* 2^chunk_size, never negative
PyAndMask(x, chunk_size) ==
  LET r == BigToInt(BigLow(x.mag, chunk_size))
  IN IF x.neg /\ r # 0 THEN 2^chunk_size - r ELSE r

\* number >> chunk_size: the floor of number / 2^chunk_size
PyShr(x, chunk_size) ==
  IF x.neg
  THEN [neg |-> TRUE, mag |-> BigHigh(BigAdd(x.mag, BigOnes(chunk_size)), chunk_size)]
  ELSE [neg |-> FALSE, mag |-> BigHigh(x.mag, chunk_size)]

RECURSIVE split_chunks_from(_, _, _)
\* the while loop of split_chunks for number >= 0 and chunk_size >= 1
split_chunks_from(number, chunk_size, chunks) ==
  IF PyIsZero(number) THEN chunks
  ELSE split_chunks_from(PyShr(number, chunk_size), chunk_size,
                         Append(chunks, PyAndMask(number, chunk_size)))

split_chunks(number, chunk_size) == split_chunks_from(number, chunk_size, <<>>)

RECURSIVE IntOr(_, _)
\* a | b for a, b >= 0
IntOr(a, b) ==
  IF a = 0 THEN b
  ELSE IF b = 0 THEN a
  ELSE (IF a % 2 = 1 \/ b % 2 = 1 THEN 1 ELSE 0) + 2 * IntOr(a \div 2, b \div 2)

\* a | b for a, b >= 0 in limbs
BigOr(a, b) ==
  BigNorm([j \in 1..(IF Len(a) > Len(b) THEN Len(a) ELSE Len(b)) |->
             IntOr(Limb(a, j), Limb(b, j))])

\* number = (number << chunk_size) | chunk
CombineStep(number, chunk, chunk_size) ==
  BigOr(BigShl(number, chunk_size), BigFromInt(chunk))

RECURSIVE combine_from(_, _, _, _)
\* for chunk in reversed(chunks): the chunks at positions i..1
combine_from(chunks, chunk_size, i, number) ==
  IF i = 0 THEN number
  ELSE combine_from(chunks, chunk_size, i - 1,
                    CombineStep(number, chunks[i], chunk_size))

\* variant: the chunks taken in list order, not reversed
combine_plus(chunks, chunk_size) ==
  LET RECURSIVE sum(_, _)
      sum(i, number) ==
        IF i > Len(chunks) THEN number
        ELSE sum(i + 1, BigAdd(BigShl(number, chunk_size), BigFromInt(chunks[i])))
  IN PyNat(sum(1, <<>>))

combine_chunks(chunks, chunk_size) ==
  PyNat(combine_from(chunks, chunk_size, Len(chunks), <<>>))

-----------------------------------------------------------------------------
(* Mersenne_GPU.py: lucas_lehmer_kernel_chunked on numba int64.  An int64 is *)
(* held as its 64-bit two's complement pattern, a natural below 2^64.       *)

WordBits == 64
chunk_size == 30

Wrap64(x) == BigLow(x, WordBits)
IsNeg64(u) == ~BigIsZero(BigHigh(u, WordBits - 1))
MinusOne64 == BigNorm(BigOnes(WordBits))
\* whether the natural x is not an int64 value
Exceeds64(x) == BigBitLen(x) > WordBits - 1

\* M += M_chunks[i] << (i * chunk_size) for a shift count below 64 and
\* M >= 0: shl and add keep the low 64 bits
ReconstructStep(M, chunk, i) ==
  Wrap64(BigAdd(M, Wrap64(BigShl(BigFromInt(chunk), i * chunk_size))))

ReconstructWraps(M, chunk, i) ==
  \/ Exceeds64(BigShl(BigFromInt(chunk), i * chunk_size))
  \/ Exceeds64(BigAdd(M, BigShl(BigFromInt(chunk), i * chunk_size)))

\* x - 2 on int64 patterns
SubTwo64(u) ==
  IF BigLess(u, Two) THEN BigSub(BigAdd(u, BigShl(<<1>>, WordBits)), Two)
  ELSE BigSub(u, Two)

\* v % M on int64 with Python's sign rule, as numba compiles it.  Below shift
\* count 64 the reconstructed M is either (1 << n) - 1 with n <= 63 or the
\* pattern of -1, and anything % -1 is 0.
Mod64(v, M) ==
  IF M = MinusOne64 THEN <<>>
  ELSE IF IsNeg64(v)
  THEN LET r == BigModOnes(BigSub(BigShl(<<1>>, WordBits), v), M)
       IN IF BigIsZero(r) THEN <<>> ELSE BigNorm(BigSub(M, r))
  ELSE BigModOnes(v, M)

\* s = (s * s - 2) % M for 0 <= s
KernelStep(s, M) == Mod64(SubTwo64(Wrap64(BigMul(s, s))), M)

KernelStepWraps(s) ==
  \/ Exceeds64(BigMul(s, s))
  \/ BigLess(Wrap64(BigMul(s, s)), Two)
     /\ ~BigLess(BigMul(s, s), Two)

RECURSIVE KernelReconstruct(_, _, _)
\* the first for loop of the kernel, from index i (0-based) on
KernelReconstruct(M_chunks, i, M) ==
  IF i >= Len(M_chunks) THEN M
  ELSE KernelReconstruct(M_chunks, i + 1, ReconstructStep(M, M_chunks[i + 1], i))

RECURSIVE KernelIterate(_, _, _)
\* the second for loop: n applications of KernelStep
KernelIterate(s, M, n) ==
  IF n <= 0 THEN s
  ELSE IF n = 1 THEN KernelStep(s, M)
  ELSE LET h == KernelIterate(s, M, n \div 2)
       IN Strict(h, KernelIterate(h, M, n - n \div 2))

\* s_array[0] after the kernel ran
lucas_lehmer_kernel_chunked(e, M_chunks) ==
  KernelIterate(Four, KernelReconstruct(M_chunks, 0, <<>>), e - 2)

lucas_lehmer_test_cuda(e) ==
  IF e = 2 THEN TRUE
  ELSE BigIsZero(lucas_lehmer_kernel_chunked(
                   e, split_chunks(PyNat(MersenneNumber(e)), chunk_size)))

\* the verdicts of the exponents the GPU search can reach, computed once
CudaVerdicts == {e \in 1..MaxKernelExp : lucas_lehmer_test_cuda(e)}

-----------------------------------------------------------------------------
(* MERSENNE.py: find_next_mersenne_prime *)

\* p in known_exponents, a list
InList(x, l) == \E i \in 1..Len(l) : l[i] = x

\* variant: p = start, made odd, without the + 1
FirstCandidateFromStart(s) == IF s % 2 = 0 THEN s + 1 ELSE s

\* p = start + 1; if p % 2 == 0: p += 1
FirstCandidate(s) == IF (s + 1) % 2 = 0 THEN s + 2 ELSE s + 1

Stride == 2

RECURSIVE NextCandidate(_, _)
\* while p in known_exponents or not is_prime(p): p += 2, followed up to MaxExp
NextCandidate(q, known) ==
  IF q > MaxExp THEN q
  ELSE IF InList(q, known) \/ ~is_prime(q) THEN NextCandidate(q + Stride, known)
  ELSE q

RECURSIVE BuildBatch(_, _, _, _)
\* for _ in range(batch_size): ...; candidates.append(p); p += 2
\* full is FALSE when the batch would pass MaxExp
BuildBatch(q, known, n, acc) ==
  IF n = 0 THEN [candidates |-> acc, p |-> q, full |-> TRUE]
  ELSE LET c == NextCandidate(q, known)
       IN IF c > MaxExp THEN [candidates |-> acc, p |-> c, full |-> FALSE]
          ELSE BuildBatch(c + Stride, known, n - 1, Append(acc, c))

batch_size(n) == n * 2

Pending == <<>>
Finished(rs) == {i \in 1..Len(rs) : rs[i] # Pending}

\* Pool(num_processes): the workers take the tasks in order, one each, so the
\* tasks under way are the first unfinished ones, num_processes at most
Running(rs, n) ==
  {i \in 1..Len(rs) : rs[i] = Pending /\ i <= Cardinality(Finished(rs)) + n}

RECURSIVE FirstTrue(_, _)
\* for candidate_p, is_mersenne in results: if is_mersenne: return ...
\* the index of the first true result from i on, 0 when there is none
FirstTrue(rs, i) ==
  IF i > Len(rs) THEN 0 ELSE IF rs[i][2] THEN i ELSE FirstTrue(rs, i + 1)

RECURSIVE LastTrue(_, _)
\* the index of the last true result from i on, 0 when there is none
LastTrue(rs, i) ==
  IF i > Len(rs) THEN 0
  ELSE LET later == LastTrue(rs, i + 1)
       IN IF later # 0 THEN later ELSE IF rs[i][2] THEN i ELSE 0

\* variant: the scan keeps the last true result instead of the first
SelectedLast(rs) == LastTrue(rs, 1)

\* the result slot the scan returns: 0 when no result of the batch is true
Selected(rs) == FirstTrue(rs, 1)

Enter ==
  /\ pc = "call"
  /\ p' = FirstCandidate(start)
  /\ candidates' = <<>>
  /\ results' = <<>>
  /\ emitted' = <<>>
  /\ pc' = "build"
  /\ UNCHANGED <<known_exponents, start, num_processes, found, mersenne_prime,
                 reported, first_run, has_gmpy2>>
  /\ UNCHANGED <<kernelVars, llVars, chunkVars, primeVars>>

Build ==
  /\ pc = "build"
  /\ LET b == BuildBatch(p, known_exponents, batch_size(num_processes), <<>>)
     IN /\ b.full
        /\ candidates' = b.candidates
        /\ p' = b.p
        /\ results' = [i \in 1..Len(b.candidates) |-> Pending]
        /\ emitted' = emitted \o b.candidates
  /\ pc' = "map"
  /\ UNCHANGED <<known_exponents, start, num_processes, found, mersenne_prime,
                 reported, first_run, has_gmpy2>>
  /\ UNCHANGED <<kernelVars, llVars, chunkVars, primeVars>>

\* one worker of pool.map finishes its task and stores the result in its slot
WorkerFinish(i) ==
  /\ pc = "map"
  /\ i \in Running(results, num_processes)
  /\ results' = [results EXCEPT
                   ![i] = lucas_lehmer_test_multiprocessing(candidates[i])]
  /\ UNCHANGED <<pc, known_exponents, start, num_processes, p, candidates,
                 found, mersenne_prime, emitted, reported, first_run, has_gmpy2>>
  /\ UNCHANGED <<kernelVars, llVars, chunkVars, primeVars>>

\* pool.map returned and the scan met a true result
ReturnFound ==
  /\ pc = "map"
  /\ Finished(results) = 1..Len(results)
  /\ Selected(results) # 0
  /\ found' = results[Selected(results)][1]
  /\ mersenne_prime' = MersenneNumber(results[Selected(results)][1])
  /\ pc' = "returned"
  /\ UNCHANGED <<known_exponents, start, num_processes, p, candidates, results,
                 emitted, reported, first_run, has_gmpy2>>
  /\ UNCHANGED <<kernelVars, llVars, chunkVars, primeVars>>

\* pool.map returned and no result is true: the while loop goes round
NextBatch ==
  /\ pc = "map"
  /\ Finished(results) = 1..Len(results)
  /\ Selected(results) = 0
  /\ pc' = "build"
  /\ UNCHANGED <<known_exponents, start, num_processes, p, candidates, results,
                 found, mersenne_prime, emitted, reported, first_run, has_gmpy2>>
  /\ UNCHANGED <<kernelVars, llVars, chunkVars, primeVars>>

-----------------------------------------------------------------------------
(* Mersenne_GPU.py: find_next_mersenne_prime *)

\* p % 6 not in {1, 5}
FailsMod6(q) == q % 6 \notin {1, 5}

GpuEnter ==
  /\ pc = "gpu_call"
  /\ p' = start
  /\ emitted' = <<>>
  /\ pc' = "gpu_loop"
  /\ UNCHANGED <<known_exponents, start, num_processes, candidates, results,
                 found, mersenne_prime, reported, first_run, has_gmpy2>>
  /\ UNCHANGED <<kernelVars, llVars, chunkVars, primeVars>>

\* p += 1 and the two filters; an exponent that passes is handed to the test
GpuAdvance ==
  /\ pc = "gpu_loop"
  /\ p + 1 <= MaxKernelExp
  /\ p' = p + 1
  /\ IF InList(p + 1, known_exponents) \/ FailsMod6(p + 1)
     THEN UNCHANGED <<pc, emitted>>
     ELSE pc' = "gpu_test" /\ emitted' = Append(emitted, p + 1)
  /\ UNCHANGED <<known_exponents, start, num_processes, candidates, results,
                 found, mersenne_prime, reported, first_run, has_gmpy2>>
  /\ UNCHANGED <<kernelVars, llVars, chunkVars, primeVars>>

\* if lucas_lehmer_test_cuda(p): return mersenne_prime, p
GpuTest ==
  /\ pc = "gpu_test"
  /\ IF p \in CudaVerdicts
     THEN /\ found' = p
          /\ mersenne_prime' = MersenneNumber(p)
          /\ pc' = "gpu_returned"
     ELSE pc' = "gpu_loop" /\ UNCHANGED <<found, mersenne_prime>>
  /\ UNCHANGED <<known_exponents, start, num_processes, p, candidates, results,
                 emitted, reported, first_run, has_gmpy2>>
  /\ UNCHANGED <<kernelVars, llVars, chunkVars, primeVars>>

-----------------------------------------------------------------------------
(* The drivers: main() of MERSENNE.py and the module loop of Mersenne_GPU.py *)

\* known_exponents of MERSENNE.py; Mersenne_GPU.py's list goes on with 521, 2203
SeedList == <<2, 3, 5, 7, 13, 17, 19, 31, 61, 89, 107, 127>>

OracleLimit == 100

\* variant: known_exponents.append(starting_prime_exponent)
AppendStart ==
  /\ pc \in {"returned", "gpu_returned"}
  /\ known_exponents' = Append(known_exponents, start)
  /\ start' = found
  /\ reported' = Append(reported, found)
  /\ pc' = IF pc = "returned" THEN "verify" ELSE "gpu_verify"
  /\ UNCHANGED <<num_processes, p, candidates, results, found, mersenne_prime,
                 emitted, first_run, has_gmpy2>>
  /\ UNCHANGED <<kernelVars, llVars, chunkVars, primeVars>>

\* variant: the next call starts after the last candidate of the batch
AppendAndSkip ==
  /\ pc \in {"returned", "gpu_returned"}
  /\ known_exponents' = Append(known_exponents, found)
  /\ start' = IF pc = "returned" THEN candidates[Len(candidates)] ELSE found
  /\ reported' = Append(reported, found)
  /\ pc' = IF pc = "returned" THEN "verify" ELSE "gpu_verify"
  /\ UNCHANGED <<num_processes, p, candidates, results, found, mersenne_prime,
                 emitted, first_run, has_gmpy2>>
  /\ UNCHANGED <<kernelVars, llVars, chunkVars, primeVars>>

\* known_exponents.append(p); starting_prime_exponent = p
AppendFound ==
  /\ pc \in {"returned", "gpu_returned"}
  /\ known_exponents' = Append(known_exponents, found)
  /\ start' = found
  /\ reported' = Append(reported, found)
  /\ pc' = IF pc = "returned" THEN "verify" ELSE "gpu_verify"
  /\ UNCHANGED <<num_processes, p, candidates, results, found, mersenne_prime,
                 emitted, first_run, has_gmpy2>>
  /\ UNCHANGED <<kernelVars, llVars, chunkVars, primeVars>>

\* verify_mersenne_prime of MERSENNE.py: gmpy2.is_prime, an external oracle,
\* answers below OracleLimit when gmpy2 is there; otherwise True
Verify ==
  /\ pc = "verify"
  /\ \E ok \in BOOLEAN :
       /\ (has_gmpy2 /\ found < OracleLimit) \/ ok
       /\ pc' = IF ok THEN "pause" ELSE "call"
  /\ UNCHANGED <<known_exponents, start, num_processes, p, candidates, results,
                 found, mersenne_prime, emitted, reported, first_run, has_gmpy2>>
  /\ UNCHANGED <<kernelVars, llVars, chunkVars, primeVars>>

\* verify_mersenne_prime of Mersenne_GPU.py: always the oracle
GpuVerify ==
  /\ pc = "gpu_verify"
  /\ \E ok \in BOOLEAN : pc' = IF ok THEN "gpu_pause" ELSE "gpu_call"
  /\ UNCHANGED <<known_exponents, start, num_processes, p, candidates, results,
                 found, mersenne_prime, emitted, reported, first_run, has_gmpy2>>
  /\ UNCHANGED <<kernelVars, llVars, chunkVars, primeVars>>

\* input(...) returns and the loop goes round
Resume ==
  /\ pc \in {"pause", "gpu_pause"}
  /\ pc' = IF pc = "pause" THEN "call" ELSE "gpu_call"
  /\ UNCHANGED <<known_exponents, start, num_processes, p, candidates, results,
                 found, mersenne_prime, emitted, reported, first_run, has_gmpy2>>
  /\ UNCHANGED <<kernelVars, llVars, chunkVars, primeVars>>

\* KeyboardInterrupt while input(...) waits
Interrupt ==
  /\ pc \in {"pause", "gpu_pause"}
  /\ pc' = IF pc = "pause" THEN "stopped" ELSE "gpu_stopped"
  /\ UNCHANGED <<known_exponents, start, num_processes, p, candidates, results,
                 found, mersenne_prime, emitted, reported, first_run, has_gmpy2>>
  /\ UNCHANGED <<kernelVars, llVars, chunkVars, primeVars>>

\* The same search run again at the second parallelism, the first result kept
Parallelisms == <<1, 8>>

RunAgain ==
  /\ pc = "returned"
  /\ first_run = <<>>
  /\ first_run' = <<found, mersenne_prime>>
  /\ num_processes' = Parallelisms[2]
  /\ pc' = "call"
  /\ UNCHANGED <<known_exponents, start, p, candidates, results, found,
                 mersenne_prime, emitted, reported, has_gmpy2>>
  /\ UNCHANGED <<kernelVars, llVars, chunkVars, primeVars>>

-----------------------------------------------------------------------------
(* MERSENNE.py: lucas_lehmer_test, statement by statement *)

LLEnter ==
  /\ ll_pc = "entry"
  /\ IF ll_p = 2
     THEN ll_verdict' = TRUE /\ ll_pc' = "done" /\ UNCHANGED <<ll_M, ll_s>>
     ELSE /\ ll_M' = MersenneNumber(ll_p)
          /\ ll_s' = Four
          /\ ll_pc' = "loop"
          /\ UNCHANGED ll_verdict
  /\ UNCHANGED <<ll_p, ll_iter>>
  /\ UNCHANGED <<searchVars, kernelVars, chunkVars, primeVars>>

LLLoop ==
  /\ ll_pc = "loop"
  /\ ll_iter < LLIterations(ll_p)
  /\ ll_s' = LLStep(ll_s, ll_M)
  /\ ll_iter' = ll_iter + 1
  /\ UNCHANGED <<ll_pc, ll_p, ll_M, ll_verdict>>
  /\ UNCHANGED <<searchVars, kernelVars, chunkVars, primeVars>>

LLReturn ==
  /\ ll_pc = "loop"
  /\ ll_iter >= LLIterations(ll_p)
  /\ ll_verdict' = BigIsZero(ll_s)
  /\ ll_pc' = "done"
  /\ UNCHANGED <<ll_p, ll_M, ll_s, ll_iter>>
  /\ UNCHANGED <<searchVars, kernelVars, chunkVars, primeVars>>

-----------------------------------------------------------------------------
(* Mersenne_GPU.py: lucas_lehmer_test_cuda, statement by statement *)

\* if p == 2: return True; else M and M_chunks are prepared for the device
KHost ==
  /\ k_pc = "host"
  /\ IF k_p = 2
     THEN k_verdict' = TRUE /\ k_pc' = "done" /\ UNCHANGED k_chunks
     ELSE /\ k_chunks' = split_chunks(PyNat(MersenneNumber(k_p)), chunk_size)
          /\ k_pc' = "reconstruct"
          /\ UNCHANGED k_verdict
  /\ UNCHANGED <<k_p, k_i, k_M, k_s, k_iter, k_wrapped>>
  /\ UNCHANGED <<searchVars, llVars, chunkVars, primeVars>>

\* for i in range(len(M_chunks)): M += M_chunks[i] << (i * chunk_size)
KReconstruct ==
  /\ k_pc = "reconstruct"
  /\ k_i < Len(k_chunks)
  /\ k_i * chunk_size < WordBits
  /\ k_M' = ReconstructStep(k_M, k_chunks[k_i + 1], k_i)
  /\ k_wrapped' = (k_wrapped \/ ReconstructWraps(k_M, k_chunks[k_i + 1], k_i))
  /\ k_i' = k_i + 1
  /\ UNCHANGED <<k_pc, k_p, k_chunks, k_s, k_iter, k_verdict>>
  /\ UNCHANGED <<searchVars, llVars, chunkVars, primeVars>>

KReconstructed ==
  /\ k_pc = "reconstruct"
  /\ k_i >= Len(k_chunks)
  /\ k_pc' = "iterate"
  /\ UNCHANGED <<k_p, k_chunks, k_i, k_M, k_s, k_iter, k_wrapped, k_verdict>>
  /\ UNCHANGED <<searchVars, llVars, chunkVars, primeVars>>

\* for _ in range(p - 2): s = (s * s - 2) % M
KIterate ==
  /\ k_pc = "iterate"
  /\ k_iter < k_p - 2
  /\ k_s' = KernelStep(k_s, k_M)
  /\ k_wrapped' = (k_wrapped \/ KernelStepWraps(k_s))
  /\ k_iter' = k_iter + 1
  /\ UNCHANGED <<k_pc, k_p, k_chunks, k_i, k_M, k_verdict>>
  /\ UNCHANGED <<searchVars, llVars, chunkVars, primeVars>>

\* s_array[0] = s; return s_result[0] == 0
KReturn ==
  /\ k_pc = "iterate"
  /\ k_iter >= k_p - 2
  /\ k_verdict' = BigIsZero(k_s)
  /\ k_pc' = "done"
  /\ UNCHANGED <<k_p, k_chunks, k_i, k_M, k_s, k_iter, k_wrapped>>
  /\ UNCHANGED <<searchVars, llVars, chunkVars, primeVars>>

-----------------------------------------------------------------------------
(* split_chunks followed by combine_chunks, statement by statement *)

\* while number: chunks.append(number & ((1 << chunk_size) - 1));
\*               number >>= chunk_size
SplitLoop ==
  /\ c_pc = "split"
  /\ ~PyIsZero(c_number)
  /\ Len(c_chunks) < MaxChunks
  /\ IF c_size < 0
     THEN c_pc' = "raised" /\ UNCHANGED <<c_number, c_chunks>>
     ELSE /\ c_chunks' = Append(c_chunks, PyAndMask(c_number, c_size))
          /\ c_number' = PyShr(c_number, c_size)
          /\ UNCHANGED c_pc
  /\ UNCHANGED <<c_arg, c_size, c_combined>>
  /\ UNCHANGED <<searchVars, kernelVars, llVars, primeVars>>

\* return chunks, which the caller hands to combine_chunks
SplitReturn ==
  /\ c_pc = "split"
  /\ PyIsZero(c_number)
  /\ c_combined' = combine_chunks(c_chunks, c_size)
  /\ c_pc' = "done"
  /\ UNCHANGED <<c_arg, c_size, c_number, c_chunks>>
  /\ UNCHANGED <<searchVars, kernelVars, llVars, primeVars>>

-----------------------------------------------------------------------------
(* is_prime applied to one argument *)

CallIsPrime ==
  /\ ip_result = "none"
  /\ ip_result' = IF is_prime(ip_n) THEN "prime" ELSE "not prime"
  /\ UNCHANGED ip_n
  /\ UNCHANGED <<searchVars, kernelVars, llVars, chunkVars>>

-----------------------------------------------------------------------------
(* Initial states and specifications *)

SearchIdle ==
  /\ pc = "idle" /\ known_exponents = <<>> /\ start = 0 /\ num_processes = 1
  /\ p = 0 /\ candidates = <<>> /\ results = <<>> /\ found = 0
  /\ mersenne_prime = <<>> /\ emitted = <<>> /\ reported = <<>>
  /\ first_run = <<>> /\ has_gmpy2 = FALSE

KernelIdle ==
  /\ k_pc = "idle" /\ k_p = 0 /\ k_chunks = <<>> /\ k_i = 0 /\ k_M = <<>>
  /\ k_s = <<>> /\ k_iter = 0 /\ k_wrapped = FALSE /\ k_verdict = FALSE

LLIdle ==
  /\ ll_pc = "idle" /\ ll_p = 0 /\ ll_M = <<>> /\ ll_s = <<>> /\ ll_iter = 0
  /\ ll_verdict = FALSE

ChunksIdle ==
  /\ c_pc = "idle" /\ c_arg = PyInt(0) /\ c_size = 0 /\ c_number = PyInt(0)
  /\ c_chunks = <<>> /\ c_combined = PyInt(0)

PrimeIdle == ip_n = 0 /\ ip_result = "idle"

RECURSIVE Ascending(_)
\* the elements of a finite set of integers as a list, smallest first
Ascending(S) ==
  IF S = {} THEN <<>>
  ELSE LET m == CHOOSE x \in S : \A y \in S : x <= y
       IN <<m>> \o Ascending(S \ {m})

RECURSIVE MaxOf(_, _)
\* max(known_exponents) from index i on
MaxOf(l, i) ==
  IF i = Len(l) THEN l[i]
  ELSE LET m == MaxOf(l, i + 1) IN IF l[i] > m THEN l[i] ELSE m

KnownPool == {e \in 2..MaxKnown : e = 2 \/ e % 2 = 1}

\* one call of either find_next_mersenne_prime, for any start and known list
InitSearch ==
  /\ pc \in {"call", "gpu_call"}
  /\ start \in 0..MaxStart
  /\ known_exponents \in {Ascending(S) : S \in SUBSET KnownPool}
  /\ num_processes \in 1..MaxProcs
  /\ pc = "gpu_call" => num_processes = 1
  /\ p = 0 /\ candidates = <<>> /\ results = <<>> /\ found = 0
  /\ mersenne_prime = <<>> /\ emitted = <<>> /\ reported = <<>>
  /\ first_run = <<>> /\ has_gmpy2 = FALSE
  /\ KernelIdle /\ LLIdle /\ ChunksIdle /\ PrimeIdle

NextSearch ==
  \/ Enter \/ Build \/ (\E i \in 1..Len(results) : WorkerFinish(i))
  \/ ReturnFound \/ NextBatch
  \/ GpuEnter \/ GpuAdvance \/ GpuTest

SpecSearch == InitSearch /\ [][NextSearch]_vars

\* the drivers, from a seed that is a prefix of the program's list
InitDriver ==
  /\ pc \in {"call", "gpu_call"}
  /\ \E n \in 1..MaxSeedLen :
       /\ known_exponents = SubSeq(SeedList, 1, n)
       /\ start = MaxOf(SubSeq(SeedList, 1, n), 1)
  /\ num_processes \in 1..MaxProcs
  /\ has_gmpy2 \in BOOLEAN
  /\ pc = "gpu_call" => (num_processes = 1 /\ has_gmpy2)
  /\ p = 0 /\ candidates = <<>> /\ results = <<>> /\ found = 0
  /\ mersenne_prime = <<>> /\ emitted = <<>> /\ reported = <<>>
  /\ first_run = <<>>
  /\ KernelIdle /\ LLIdle /\ ChunksIdle /\ PrimeIdle

NextDriver ==
  \/ Enter \/ Build \/ (\E i \in 1..Len(results) : WorkerFinish(i))
  \/ ReturnFound \/ NextBatch
  \/ GpuEnter \/ GpuAdvance \/ GpuTest
  \/ AppendFound \/ Verify \/ GpuVerify \/ Resume \/ Interrupt

SpecDriver == InitDriver /\ [][NextDriver]_vars

\* the search of MERSENNE.py run at the first parallelism, then at the second,
\* from nothing known and from the two longest seeds
InitParallel ==
  /\ pc = "call"
  /\ \E n \in {0, MaxSeedLen - 1, MaxSeedLen} :
       /\ known_exponents = SubSeq(SeedList, 1, n)
       /\ start = IF n = 0 THEN 0 ELSE MaxOf(SubSeq(SeedList, 1, n), 1)
  /\ num_processes = Parallelisms[1]
  /\ p = 0 /\ candidates = <<>> /\ results = <<>> /\ found = 0
  /\ mersenne_prime = <<>> /\ emitted = <<>> /\ reported = <<>>
  /\ first_run = <<>> /\ has_gmpy2 = FALSE
  /\ KernelIdle /\ LLIdle /\ ChunksIdle /\ PrimeIdle

NextParallel ==
  \/ Enter \/ Build \/ (\E i \in 1..Len(results) : WorkerFinish(i))
  \/ ReturnFound \/ NextBatch \/ RunAgain

SpecParallel == InitParallel /\ [][NextParallel]_vars

InitLL ==
  /\ ll_p \in {e \in 2..MaxExp : is_prime(e)}
  /\ ll_pc = "entry" /\ ll_M = <<>> /\ ll_s = <<>> /\ ll_iter = 0
  /\ ll_verdict = FALSE
  /\ SearchIdle /\ KernelIdle /\ ChunksIdle /\ PrimeIdle

NextLL == LLEnter \/ LLLoop \/ LLReturn

SpecLL == InitLL /\ [][NextLL]_vars

InitKernel ==
  /\ k_p \in 1..MaxKernelExp
  /\ k_pc = "host" /\ k_chunks = <<>> /\ k_i = 0 /\ k_M = <<>> /\ k_s = Four
  /\ k_iter = 0 /\ k_wrapped = FALSE /\ k_verdict = FALSE
  /\ SearchIdle /\ LLIdle /\ ChunksIdle /\ PrimeIdle

NextKernel == KHost \/ KReconstruct \/ KReconstructed \/ KIterate \/ KReturn

SpecKernel == InitKernel /\ [][NextKernel]_vars

ChunkSizes == ((0 - 1)..MaxChunkSize) \cup {chunk_size}

InitChunks ==
  /\ c_arg \in {PyInt(n) : n \in (0 - MaxNumber)..MaxNumber}
               \cup {PyNat(MersenneNumber(e)) : e \in {31, 61, 89}}
  /\ c_size \in ChunkSizes
  /\ c_number = c_arg
  /\ c_pc = "split" /\ c_chunks = <<>> /\ c_combined = PyInt(0)
  /\ SearchIdle /\ KernelIdle /\ LLIdle /\ PrimeIdle

NextChunks == SplitLoop \/ SplitReturn

SpecChunks == InitChunks /\ [][NextChunks]_vars

InitPrime ==
  /\ ip_n \in 0..MaxN
  /\ ip_result = "none"
  /\ SearchIdle /\ KernelIdle /\ LLIdle /\ ChunksIdle

NextPrime == CallIsPrime

SpecPrime == InitPrime /\ [][NextPrime]_vars

-----------------------------------------------------------------------------
(* Reference notions the properties are stated against *)

\* n is prime by definition: above 1 and with no divisor strictly between
HasNoDivisor(n) == n > 1 /\ \A d \in 2..(n - 1) : n % d # 0

\* the same for a number up to 2^31 - 1, trying the divisors up to its root
TrialPrime(m) == m > 1 /\ \A d \in 2..46340 : d * d > m \/ m % d # 0

\* 2^e - 1 is prime: by trial division while it fits a machine integer, by
\* the table of Mersenne-prime exponents beyond
MersenneIsPrime(e) ==
  IF e <= 31 THEN TrialPrime(BigToInt(MersenneNumber(e)))
  ELSE InList(e, SeedList)

StrictlyIncreasing(l) == \A i \in 1..Len(l) : \A j \in 1..Len(l) : i < j => l[i] < l[j]

IsPrefix(l, m) == Len(l) <= Len(m) /\ SubSeq(m, 1, Len(l)) = l

\* e is an exponent the search is asked to find
Qualifies(e) ==
  /\ HasNoDivisor(e)
  /\ ~InList(e, known_exponents)
  /\ e \in LLVerdicts

TrueResults == {i \in 1..Len(results) : results[i] # Pending /\ results[i][2]}

-----------------------------------------------------------------------------
(* C8 *)

\* C8: whenever is_prime has answered for an n in 0..MaxN, the answer is
\* "prime" exactly when n is above 1 and has no divisor d with 1 < d < n; in
\* particular 0 and 1 are not prime and 2 and 3 are.
C8_IsPrimeAgrees ==
  ip_result # "none" =>
    /\ (ip_result = "prime") = HasNoDivisor(ip_n)
    /\ (ip_n <= 1 => ip_result = "not prime")
    /\ (ip_n \in {2, 3} => ip_result = "prime")

C8_Witness == ip_result = "prime" /\ ip_n = 9973

-----------------------------------------------------------------------------
(* C4 *)

\* C4: lucas_lehmer_test answers TRUE for 2 without iterating; for a prime
\* p >= 3 it starts the loop from s = 4, leaves it after exactly p - 2
\* rounds and answers whether s is 0; and its answer is TRUE exactly when
\* 2^p - 1 is prime.
C4_LucasLehmer ==
  /\ (ll_pc = "loop" /\ ll_iter = 0 => BigEq(ll_s, Four))
  /\ (ll_pc = "done" =>
        /\ (ll_p = 2 => ll_verdict /\ ll_iter = 0)
        /\ (ll_p >= 3 => ll_iter = ll_p - 2 /\ ll_verdict = BigIsZero(ll_s))
        /\ ll_verdict = MersenneIsPrime(ll_p))

C4_Witness == ll_pc = "done" /\ ll_p = 127 /\ ll_verdict /\ ll_iter = 125

-----------------------------------------------------------------------------
(* C5, C6 *)

\* C5: when lucas_lehmer_test_cuda has answered for p, its residue and its
\* verdict are those of lucas_lehmer_test(p).
C5_PathsAgree ==
  k_pc = "done" =>
    /\ k_verdict = lucas_lehmer_test(k_p)
    /\ (k_p # 2 => BigEq(k_s, LLResidue(k_p)))

\* C6: lucas_lehmer_test_cuda never answers after a value went past the
\* 64-bit accumulator.
C6_NoVerdictFromWrapped == k_pc = "done" => ~k_wrapped

-----------------------------------------------------------------------------
(* C7 *)

\* one round of the while loop of split_chunks brings number nearer to 0
SplitProgress == c_pc' = "split" /\ BigLess(c_number'.mag, c_number.mag)

SplitRoundTrip == c_pc' = "done" /\ PyEq(c_combined', c_arg)

\* C7 as stated: for any integer and any chunk_size, every step of
\* split_chunks either brings number nearer to 0 or returns chunks that
\* combine_chunks turns back into the argument.
C7_AnyInteger ==
  [][c_pc = "split" => SplitProgress \/ SplitRoundTrip]_vars

\* C7: for an argument M >= 0 and a chunk_size >= 1, every step of
\* split_chunks either brings number nearer to 0 or returns chunks that
\* combine_chunks turns back into M.
C7_RoundTrip ==
  [][(c_pc = "split" /\ ~c_arg.neg /\ c_size >= 1)
       => SplitProgress \/ SplitRoundTrip]_vars

C7_Witness ==
  /\ c_pc = "done" /\ c_size = chunk_size /\ Len(c_chunks) = 3
  /\ PyEq(c_combined, PyNat(MersenneNumber(89)))

-----------------------------------------------------------------------------
(* C1, C2, C3 *)

CpuReturned == pc = "returned"

\* the scan took the smallest true exponent of the completed batch, and a
\* batch is only left behind when none of its results is true
BatchRule ==
  /\ (CpuReturned =>
        /\ found \in {candidates[i] : i \in TrueResults}
        /\ \A i \in TrueResults : found <= candidates[i])
  /\ (pc = "build" /\ results # <<>> => TrueResults = {})

C2_SameResult ==
  (CpuReturned /\ first_run # <<>>) => <<found, mersenne_prime>> = first_run

C2_Witness ==
  /\ CpuReturned /\ first_run # <<>>
  /\ num_processes = 8 /\ Len(candidates) = 16
  /\ Cardinality(TrueResults) > 1

\* C3: every exponent either search hands to the Lucas-Lehmer test is odd,
\* is not a known exponent and is not composite, and the exponents handed
\* over during one call are strictly increasing.
C3_Candidates ==
  /\ \A i \in 1..Len(emitted) :
       /\ emitted[i] % 2 = 1
       /\ ~InList(emitted[i], known_exponents)
       /\ ~(\E d \in 2..(emitted[i] - 1) : emitted[i] % d = 0)
  /\ StrictlyIncreasing(emitted)

\* the batch builder of MERSENNE.py alone meets C3
C3_BatchBuilder == pc \in {"call", "build", "map", "returned"} => C3_Candidates

-----------------------------------------------------------------------------
(* C9, C10 *)

\* C9: every step of either driver leaves known_exponents with what it
\* held, in place, and strictly increasing, so without duplicates.
C9_AppendOnly ==
  [][/\ IsPrefix(known_exponents, known_exponents')
     /\ StrictlyIncreasing(known_exponents')]_vars

C9_Witness ==
  /\ pc = "call" /\ has_gmpy2
  /\ Len(reported) >= 3
  /\ Len(known_exponents) = Len(reported) + 1

\* the starting_prime_exponent the driver began with: the last seed entry
InitialStart == known_exponents[Len(known_exponents) - Len(reported)]

LastReported ==
  IF reported = <<>> THEN InitialStart ELSE reported[Len(reported)]

\* C10: what the driver of MERSENNE.py has reported so far is the ascending
\* list of all exponents above its initial start, up to the last one
\* reported, whose Lucas-Lehmer verdict is true.
C10_NoneSkipped ==
  pc \in {"call", "build", "map", "returned", "verify", "pause", "stopped"} =>
    reported = Ascending({e \in (InitialStart + 1)..LastReported : e \in LLVerdicts})

C10_Witness ==
  /\ CpuReturned
  /\ Cardinality(TrueResults) > 1
  /\ reported = <<3, 5>> /\ found = 7

=============================================================================
